---- MODULE Spec2Model ----
(***************************************************************************)
(* Model of ModBot's manual moderation actions (the activity route's       *)
(* action: end-cooldown, unmute, unhide), of the authorization check in    *)
(* front of them, and of the webhook rule check.                           *)
(*                                                                         *)
(* The specifications of the module share its variables; each leaves the   *)
(* variables of the others at their idle value:                            *)
(*   Spec           - the activity route: requests are handled one at a    *)
(*                    time against the Cooldown and ModerationLog tables;  *)
(*   SpecForm       - the same with the form posted for one channel;      *)
(*   SpecSettings   - SpecForm with the settings route (deleteChannel);    *)
(*   SpecWebhook    - one call of the webhook check function, over all     *)
(*                    HTTP outcomes and both failure modes;                *)
(*   SpecEvaluate   - one evaluation of a rule group;                      *)
(*   SpecLoader     - one page request of the activity route loader;       *)
(*   SpecConcurrent - manual requests on one pair, interleaved;            *)
(*   SpecPermission - canUserExecuteAction;                                *)
(*   SpecValidate   - the on-chain validation functions;                   *)
(*   SpecCache      - callers of getSetCache, interleaved;                 *)
(*   SpecDebounce   - a function wrapped by debounceAsync;                 *)
(*   SpecDelete     - deleteChannel step by step, next to insertions.      *)
(***************************************************************************)
EXTENDS Integers, Sequences, FiniteSets, TLC

VARIABLES
    moderatedChannel,   \* ModeratedChannel rows: channel id -> [userId: lead, ...]
    comods,             \* Comods rows: set of [fid, channelId]
    castLog,            \* CastLog rows: set of [hash, channelId]
    cooldown,           \* Cooldown rows by (affectedUserId, channelId)
    moderationLog,      \* ModerationLog rows, in insertion (createdAt) order
    nextLogId,          \* the id the next ModerationLog row gets
    unhideOk,           \* number of external unhide calls that succeeded
    last,               \* the last handled request: its input and response
    whPc,               \* webhook: position in the promise chain
    whRule,             \* webhook: rule.args.failureMode
    whSettled,          \* webhook: what the HTTP call ended with
    whErr,              \* webhook: code of the error the promise is rejected with
    whResult,           \* webhook: the CheckResult returned
    ev,                 \* rule engine: one evaluation of a rule group
    pg,                 \* activity route loader: one page request
    req,                \* concurrent manual requests: each one's position
    perm,               \* canUserExecuteAction: one call
    val,                \* validateErc1155 / 721 / 20: one call
    gsc,                \* getSetCache: the cache and its callers
    deb,                \* debounceAsync: timer, calls and their promises
    del                 \* deleteChannel: position of the request

chanVars == <<moderatedChannel, comods, castLog>>
dbVars == <<moderatedChannel, comods, castLog, cooldown, moderationLog, nextLogId,
            unhideOk, last>>
whVars == <<whPc, whRule, whSettled, whErr, whResult>>
vars == <<moderatedChannel, comods, castLog, cooldown, moderationLog, nextLogId,
          unhideOk, last, whPc, whRule, whSettled, whErr, whResult, ev, pg,
          req, perm, val, gsc, deb, del>>
\* what the routes leave alone
notDb == <<whPc, whRule, whSettled, whErr, whResult, ev, pg,
           req, perm, val, gsc, deb, del>>
\* the variables of the utilities and of the interleaved requests
moreVars == <<req, perm, val, gsc, deb, del>>

(***************************************************************************)
(* Bounds and input sets                                                   *)
(***************************************************************************)
\* Size cap of the ModerationLog table in the model.
MaxLogs == 3

\* Longest webhook response message tried (the limit is 75).
MaxMsgLen == 77

Users == {"u1", "u2", "u3"}
ChannelIds == {"c1", "c2"}
AffectedUsers == {"7"}
NoHash == "null"
CastHashes == {"0xh1"}
LogIds == 1..MaxLogs
\* stands for a form without a logId field
MissingLogId == 0
Intents == {"end-cooldown", "unmute", "unhide"}
\* intent values a form can post: the three valid ones, and one that is not
RawIntents == Intents \cup {"bogus"}
\* logId values a form can post: an id, or no logId field at all
RawLogIds == LogIds \cup {MissingLogId}
TriggerActions == {"cooldown", "mute", "hideQuietly"}
\* the promise of the external unhide call resolves, or rejects on failure
UnhideOutcomes == {"ok", "throws"}
\* a write of db.cooldown.update reaches the database, or fails on the way
UpdateOutcomes == {"ok", "throws"}
\* intent values of the settings form, and one that is none of them
SettingsIntents == {"deleteChannel", "updateBannedListSetting"}
RawSettingsIntents == SettingsIntents \cup {"bogus"}
\* Number(rawData.followBannedList) of the switch in the settings form
BannedListValues == {0, 1}
\* the channel whose settings and activity forms are posted in SpecSettings:
\* the one that has a lead, a co-moderator and a stranger among Users
SettingsChannels == {"c1"}

(***************************************************************************)
(* Authorization (utils.server)                                            *)
(***************************************************************************)
\* Mutation: the query matches the channel by id alone.
canUserModerateChannel_anyUser(userId, channelId) ==
    channelId \in DOMAIN moderatedChannel

\* db.moderatedChannel.findUnique({ id, OR: [comods some fid, userId] })
canUserModerateChannel(userId, channelId) ==
    /\ channelId \in DOMAIN moderatedChannel
    /\ \/ [fid |-> userId, channelId |-> channelId] \in comods
       \/ moderatedChannel[channelId].userId = userId

\* throws redirect("/", 403) unless the user can moderate the channel
requireUserCanModerateChannel(userId, channelId) ==
    canUserModerateChannel(userId, channelId)

(***************************************************************************)
(* Tables                                                                  *)
(***************************************************************************)
\* db.moderationLog.findUnique({ where: { id } }): the row, or none
FindLog(logId) ==
    {moderationLog[i] : i \in {j \in 1..Len(moderationLog) : moderationLog[j].id = logId}}

NewLog(action, affected, actor, channelId, castHash) ==
    [id |-> nextLogId, action |-> action, affectedUserFid |-> affected,
     actor |-> actor, channelId |-> channelId, castHash |-> castHash]

\* db.cooldown.update({ where: affectedUserId_channelId, data: {active: false} })
\* succeeds iff the row exists (Prisma throws on a missing row) and returns
\* the updated row.
CooldownRowExists(affected, channelId) ==
    cooldown[<<affected, channelId>>] # "absent"

CooldownDeactivated(affected, channelId) ==
    [cooldown EXCEPT ![<<affected, channelId>>] = "inactive"]

\* Mutation: a failed update is not noticed.
CooldownUpdateReturned_always(rowExists, outcome) == TRUE

\* await db.cooldown.update(...) returns iff the row exists and the write
\* went through; otherwise it throws out of the handler
CooldownUpdateReturned(rowExists, outcome) == rowExists /\ outcome = "ok"

\* `if (updated)`: the row returned by update is an object, hence truthy
Updated(before) == before # "absent"

\* Mutation: the guard of tiny-invariant is dropped.
CastHashPresent_unchecked(castHash) == TRUE

\* invariant(log.castHash, ...): a null or empty hash is falsy
CastHashPresent(castHash) == castHash # NoHash /\ castHash # ""

\* Mutation: a failure of the external call is swallowed.
UnhideReturned_swallowed(outcome) == TRUE

\* `await unhide(...)`: control continues only when the promise resolved
UnhideReturned(outcome) == outcome = "ok"

\* the model's cap on the table size: an insertion needs room
Room == nextLogId <= MaxLogs

\* the user is the lead of the channel or one of its co-moderators
IsLeadOrComod(userId, channelId) ==
    \/ \E c \in DOMAIN moderatedChannel :
           c = channelId /\ moderatedChannel[c].userId = userId
    \/ \E m \in comods : m.fid = userId /\ m.channelId = channelId

\* What is recorded of a request: permitted tells whether its user was lead
\* or co-moderator of its channel; intent is the parsed intent ("none" while
\* the form was not parsed); affected, castHash come from the log row that
\* was found; before is the Cooldown of the pair before the request;
\* logsBefore the size of ModerationLog before it; unhide the external call;
\* update how the write of db.cooldown.update went; byLead tells, of a
\* request to the settings route, whether its user is the channel's lead.
IdleLast ==
    [kind |-> "none", permitted |-> FALSE, channelId |-> "none",
     intent |-> "none", status |-> 0, affected |-> "none", before |-> "n/a",
     logsBefore |-> 0, castHash |-> NoHash, unhide |-> "notCalled",
     update |-> "notCalled", byLead |-> FALSE]

Response(userId, channelId, intent, status, affected, before, castHash, unhide) ==
    [kind |-> "manual", permitted |-> IsLeadOrComod(userId, channelId),
     channelId |-> channelId,
     intent |-> intent, status |-> status, affected |-> affected, before |-> before,
     logsBefore |-> Len(moderationLog), castHash |-> castHash, unhide |-> unhide,
     update |-> "notCalled", byLead |-> FALSE]

(***************************************************************************)
(* Webhook variables stay idle in Spec.                                    *)
(***************************************************************************)
NoOutcome == [kind |-> "none", status |-> 0, body |-> [kind |-> "noMessage", message |-> ""]]
NoResult == [kind |-> "none", result |-> FALSE, message |-> ""]

EvIdle == ev = [pc |-> "off"]
PgIdle == pg = [pc |-> "off"]
ReqIdle == req = [pc |-> "off"]
PermIdle == perm = [pc |-> "off"]
ValIdle == val = [pc |-> "off"]
GscIdle == gsc = [pc |-> "off"]
DebIdle == deb = [pc |-> "off"]
DelIdle == del = [pc |-> "off"]
MoreIdle == ReqIdle /\ PermIdle /\ ValIdle /\ GscIdle /\ DebIdle /\ DelIdle

WhIdle ==
    /\ whPc = "off"
    /\ whRule = "none"
    /\ whSettled = NoOutcome
    /\ whErr = "none"
    /\ whResult = NoResult

\* two channels: u1 leads c1 with u2 as co-moderator, u2 leads c2; u3 has
\* no role; every channel has one CastLog row; no moderation has happened
InitTables ==
    /\ moderatedChannel = [c \in ChannelIds |->
           [userId |-> IF c = "c1" THEN "u1" ELSE "u2", disableBannedList |-> 0]]
    /\ comods = {[fid |-> "u2", channelId |-> "c1"]}
    /\ castLog = {[hash |-> "0xh1", channelId |-> "c1"], [hash |-> "0xh2", channelId |-> "c2"]}
    /\ cooldown = [p \in AffectedUsers \X ChannelIds |-> "absent"]
    /\ unhideOk = 0
    /\ last = IdleLast

InitDb ==
    /\ InitTables
    /\ moderationLog = <<>>
    /\ nextLogId = 1

Init ==
    /\ InitDb
    /\ WhIdle
    /\ EvIdle
    /\ PgIdle
    /\ MoreIdle

(***************************************************************************)
(* Rule-triggered moderation action (the automod path, outside the         *)
(* activity route): writes the rows the manual actions later refer to.     *)
(***************************************************************************)
Trigger(action, affected, channelId, castHash) ==
    /\ Room
    /\ (action = "hideQuietly") <=> (castHash # NoHash)
    /\ channelId \in DOMAIN moderatedChannel
    /\ cooldown' = IF action = "cooldown"
                   THEN [cooldown EXCEPT ![<<affected, channelId>>] = "active"]
                   ELSE cooldown
    /\ moderationLog' = Append(moderationLog,
           NewLog(action, affected, "automod", channelId, castHash))
    /\ last' = [IdleLast EXCEPT !.kind = "trigger",
                                !.channelId = channelId, !.affected = affected,
                                !.logsBefore = Len(moderationLog)]
    /\ nextLogId' = nextLogId + 1
    /\ UNCHANGED <<chanVars, unhideOk>>
    /\ UNCHANGED notDb

(***************************************************************************)
(* action() of the activity route, one request from start to response.     *)
(* A status of 500 stands for an error thrown out of the handler.          *)
(***************************************************************************)
Reject(userId, channelId, intent, status) ==
    /\ last' = Response(userId, channelId, intent, status, "none", "n/a", NoHash, "notCalled")
    /\ UNCHANGED <<chanVars, cooldown, moderationLog, nextLogId, unhideOk>>

\* the branches of end-cooldown and unmute differ in the entry they insert
EndCooldownOrUnmute(userId, channelId, intent, log) ==
    LET affected == log.affectedUserFid
        before == cooldown[<<affected, channelId>>]
        entry == IF intent = "end-cooldown" THEN "cooldownEnded" ELSE "unmuted"
    IN  \E outcome \in UpdateOutcomes :
        IF ~CooldownUpdateReturned(CooldownRowExists(affected, channelId), outcome)
        THEN /\ last' = [Response(userId, channelId, intent, 500, affected, before,
                                  log.castHash, "notCalled") EXCEPT !.update = "throws"]
             /\ UNCHANGED <<chanVars, cooldown, moderationLog, nextLogId, unhideOk>>
        ELSE /\ Updated(before) => Room
             /\ cooldown' = CooldownDeactivated(affected, channelId)
             /\ moderationLog' =
                    IF Updated(before)
                    THEN Append(moderationLog, NewLog(entry, affected, userId, channelId, NoHash))
                    ELSE moderationLog
             /\ nextLogId' = IF Updated(before) THEN nextLogId + 1 ELSE nextLogId
             /\ last' = [Response(userId, channelId, intent, 200, affected, before,
                                  log.castHash, "notCalled") EXCEPT !.update = "ok"]
             /\ UNCHANGED <<chanVars, unhideOk>>

\* the unhide branch; the external unhide API performs the reveal or fails
Unhide(userId, channelId, log) ==
    IF ~CastHashPresent(log.castHash)
    THEN /\ last' = Response(userId, channelId, "unhide", 500, log.affectedUserFid, "n/a",
                             log.castHash, "notCalled")
         /\ UNCHANGED <<chanVars, cooldown, moderationLog, nextLogId, unhideOk>>
    ELSE \E outcome \in UnhideOutcomes :
         /\ unhideOk' = IF outcome = "ok" THEN unhideOk + 1 ELSE unhideOk
         /\ IF UnhideReturned(outcome)
            THEN /\ Room
                 /\ moderationLog' = Append(moderationLog,
                        NewLog("unhide", log.affectedUserFid, userId, channelId, NoHash))
                 /\ nextLogId' = nextLogId + 1
                 /\ last' = Response(userId, channelId, "unhide", 200, log.affectedUserFid,
                                     "n/a", log.castHash, outcome)
            ELSE /\ moderationLog' = moderationLog
                 /\ nextLogId' = nextLogId
                 /\ last' = Response(userId, channelId, "unhide", 500, log.affectedUserFid,
                                     "n/a", log.castHash, outcome)
         /\ UNCHANGED <<chanVars, cooldown>>

\* Mutation: the form is not validated.
WellFormed_always(logId, intent) == TRUE

\* z.object({ logId: z.string(), intent: z.enum([...]) }).safeParse(rawData)
WellFormed(logId, intent) == logId # MissingLogId /\ intent \in Intents

\* from request.formData() on: the form carries logId and intent
HandleForm(userId, channelId, logId, intent) ==
    IF ~WellFormed(logId, intent)
    THEN Reject(userId, channelId, "none", 422)
    ELSE IF FindLog(logId) = {}
    THEN Reject(userId, channelId, intent, 404)
    ELSE LET log == CHOOSE l \in FindLog(logId) : TRUE
         IN  IF intent \in {"end-cooldown", "unmute"}
             THEN EndCooldownOrUnmute(userId, channelId, intent, log)
             ELSE Unhide(userId, channelId, log)

ActivityAction(userId, channelId) ==
    /\ IF ~requireUserCanModerateChannel(userId, channelId)
       THEN Reject(userId, channelId, "none", 403)
       ELSE \E logId \in RawLogIds, intent \in RawIntents :
                HandleForm(userId, channelId, logId, intent)
    /\ UNCHANGED notDb

Next ==
    \/ \E a \in TriggerActions, f \in AffectedUsers, c \in ChannelIds,
          h \in CastHashes \cup {NoHash} : Trigger(a, f, c, h)
    \/ \E u \in Users, c \in ChannelIds : ActivityAction(u, c)

Spec == Init /\ [][Next]_vars

(***************************************************************************)
(* Properties of the manual actions, checked under Spec                    *)
(***************************************************************************)
\* the request recorded in r was handled by action() and reached a log row
Manual(r) == r.kind = "manual"
ReachedLog(r) == r.kind = "manual" /\ r.affected # "none"

\* the ModerationLog rows inserted since the request recorded in r began
InsertedSince(r, log) == SubSeq(log, r.logsBefore + 1, Len(log))

EndingEntries(rows, affected, channelId) ==
    {i \in 1..Len(rows) :
        /\ rows[i].action = "cooldownEnded"
        /\ rows[i].affectedUserFid = affected
        /\ rows[i].channelId = channelId}

\* C1: an end-cooldown request on a pair whose cooldown is active, followed
\* directly by a second end-cooldown request on the same pair, inserts exactly
\* one "cooldownEnded" entry for the pair in total.
C1_EndCooldownTwiceOneEntry ==
    [][(/\ Manual(last) /\ last.intent = "end-cooldown" /\ last.status = 200
        /\ last.before = "active"
        /\ Manual(last') /\ last'.intent = "end-cooldown"
        /\ last'.affected = last.affected /\ last'.channelId = last.channelId)
       => Cardinality(EndingEntries(InsertedSince(last, moderationLog'),
                                    last.affected, last.channelId)) = 1]_vars

\* C2: an end-cooldown or unmute request inserts a ModerationLog entry only
\* when it found the Cooldown of the pair active; on an inactive Cooldown
\* it inserts nothing.
C2_LogOnlyWhenCooldownWasActive ==
    (Manual(last) /\ last.intent \in {"end-cooldown", "unmute"})
        => (InsertedSince(last, moderationLog) # <<>> => last.before = "active")

\* C3: an unhide request whose referenced log has no castHash fails: the
\* unhide API is not called, no entry is inserted, the response is not the
\* success response.
C3_UnhideWithoutHashFails ==
    [][(/\ ReachedLog(last') /\ last'.intent = "unhide"
        /\ last'.castHash = NoHash)
       => /\ last'.unhide = "notCalled"
          /\ unhideOk' = unhideOk
          /\ moderationLog' = moderationLog
          /\ last'.status # 200]_vars

C3_Witness ==
    /\ ReachedLog(last) /\ last.intent = "unhide" /\ last.castHash = NoHash
    /\ last.status = 500

\* C4: when the external unhide call fails the request fails and inserts no
\* entry; there are never more "unhide" entries than successful unhide calls.
C4_UnhideFailurePropagates ==
    /\ (Manual(last) /\ last.unhide = "throws")
           => (last.status = 500 /\ InsertedSince(last, moderationLog) = <<>>)
    /\ Cardinality({i \in 1..Len(moderationLog) : moderationLog[i].action = "unhide"})
           <= unhideOk

C4_Witness ==
    /\ Manual(last) /\ last.unhide = "throws"
    /\ unhideOk >= 1
    /\ \E i \in 1..Len(moderationLog) : moderationLog[i].action = "unhide"

\* C5: a request by a user who is neither the lead nor a co-moderator of the
\* target channel is rejected (403) and changes neither table nor calls the
\* unhide API.
C5_UnauthorizedRejectedBeforeEffect ==
    [][(/\ Manual(last')
        /\ ~last'.permitted)
       => /\ last'.status = 403
          /\ last'.unhide = "notCalled"
          /\ UNCHANGED <<cooldown, moderationLog, unhideOk>>]_vars

C5_Witness ==
    /\ Manual(last) /\ ~last.permitted /\ last.status = 403
    /\ \E i \in 1..Len(moderationLog) :
           /\ moderationLog[i].channelId = last.channelId
           /\ cooldown[<<moderationLog[i].affectedUserFid, last.channelId>>] = "active"

(***************************************************************************)
(* The webhook check (rules/webhook.ts)                                    *)
(***************************************************************************)
maxTimeout == 5000
messageLimit == 75

FailureModes == {"trigger", "doNotTrigger"}
Statuses == {200, 204, 400, 404, 500}

Char(n) == IF n % 3 = 1 THEN "a" ELSE IF n % 3 = 2 THEN "b" ELSE "c"

RECURSIVE Text(_)
\* a response message of n characters
Text(n) == IF n = 0 THEN "" ELSE Text(n - 1) \o Char(n)

\* response.data as axios hands it over: JSON null; an object (or text)
\* without a message; an object whose message is a string; an object whose
\* message is a number, a boolean or an object
Bodies ==
    {[kind |-> k, message |-> ""] : k \in {"null", "noMessage", "nonString"}}
    \cup {[kind |-> "string", message |-> Text(n)] : n \in 0..MaxMsgLen}

\* how the POST can end: a response; no response within maxTimeout; a
\* connection error
HttpOutcomes ==
    {[kind |-> "response", status |-> st, body |-> b] : st \in Statuses, b \in Bodies}
    \cup {[kind |-> k, status |-> 0, body |-> [kind |-> "noMessage", message |-> ""]] :
              k \in {"timeout", "network"}}

validateStatus(status) == (status >= 200 /\ status < 300) \/ status = 400

\* the code axios puts on the error it rejects with: ECONNABORTED when the
\* timeout elapsed, the socket's code on a connection error,
\* ERR_BAD_RESPONSE on a status that validateStatus refuses
ErrorCode(outcome) ==
    IF outcome.kind = "timeout" THEN "ECONNABORTED"
    ELSE IF outcome.kind = "network" THEN "ECONNREFUSED"
    ELSE "ERR_BAD_RESPONSE"

\* Mutation: the message is passed on in full.
substring_whole(str, from, to) == str

\* String.prototype.substring(from, to), for 0 <= from <= to
substring(str, from, to) ==
    SubSeq(str, from + 1, IF to < Len(str) THEN to ELSE Len(str))

\* `response.data.message?.substring(0, 75)` throws a TypeError when data is
\* null and when message is neither nullish nor a string
ThenThrows(body) == body.kind \in {"null", "nonString"}

\* the handler of .then(); undefined is falsy like the empty string
ThenResult(status, body) ==
    LET message == IF body.kind = "string"
                   THEN substring(body.message, 0, messageLimit)
                   ELSE ""
    IN  [kind |-> "result",
         result |-> (status = 200),
         message |-> IF message = ""
                     THEN (IF status = 200 THEN "Webhook rule triggered"
                                           ELSE "Webhook rule did not trigger")
                     ELSE message]

\* Mutation: a failure never triggers.
FailureResult_never(failureMode) == FALSE

\* failureMode === "trigger" ? true : false
FailureResult(failureMode) == failureMode = "trigger"

\* Mutation: the timeout branch is never taken.
IsTimeout_never(code) == FALSE

\* err.code === "ECONNABORTED"
IsTimeout(code) == code = "ECONNABORTED"

\* the handler of .catch()
CatchResult(code, failureMode) ==
    IF IsTimeout(code)
    THEN [kind |-> "result",
          result |-> FailureResult(failureMode),
          message |-> IF failureMode = "trigger"
                      THEN "Webhook didn't respond within " \o ToString(maxTimeout \div 1000)
                               \o "s, rule is set to trigger on failure"
                      ELSE "Webhook did not respond within " \o ToString(maxTimeout \div 1000)
                               \o "s, rule is set to not trigger on failure. "]
    ELSE [kind |-> "result",
          result |-> FailureResult(failureMode),
          message |-> IF failureMode = "trigger"
                      THEN "Webhook failed but rule is set to trigger on failure"
                      ELSE "Webhook failed and rule is set to not trigger on failure"]

InitWebhook ==
    /\ InitDb
    /\ EvIdle
    /\ PgIdle
    /\ MoreIdle
    /\ whPc = "start"
    /\ whRule \in FailureModes
    /\ whSettled = NoOutcome
    /\ whErr = "none"
    /\ whResult = NoResult

\* axios.post(...) sends the request; outcome is what the endpoint does
\* with it: it responds, it stays silent (kind "timeout"), or the
\* connection fails
WebhookPost(outcome) ==
    /\ whPc = "start"
    /\ whPc' = "pending"
    /\ whSettled' = outcome
    /\ UNCHANGED <<whRule, whErr, whResult>>
    /\ UNCHANGED <<dbVars, ev, pg, moreVars>>

\* Mutation: the request is sent without a timeout.
TimeoutArmed_off == FALSE

\* `timeout: maxTimeout`: axios arms a timer unless the timeout is 0
TimeoutArmed == maxTimeout > 0

\* the promise of axios.post settles: fulfilled when validateStatus accepts
\* the status, rejected otherwise; with a silent endpoint it is the timer
\* that rejects it, and nothing does when no timer is armed
WebhookSettle ==
    /\ whPc = "pending"
    /\ whSettled.kind = "timeout" => TimeoutArmed
    /\ IF whSettled.kind = "response" /\ validateStatus(whSettled.status)
       THEN whPc' = "fulfilled" /\ whErr' = "none"
       ELSE whPc' = "rejected" /\ whErr' = ErrorCode(whSettled)
    /\ UNCHANGED <<whRule, whSettled, whResult>>
    /\ UNCHANGED <<dbVars, ev, pg, moreVars>>

\* Mutation: .catch() is attached ahead of .then().
CatchFollowsThen_not == FALSE

\* the chain is axios.post(...).then(...).catch(...): an error thrown by the
\* .then() handler reaches the .catch() handler
CatchFollowsThen == TRUE

\* .then((response) => ...)
WebhookThen ==
    /\ whPc = "fulfilled"
    /\ IF ThenThrows(whSettled.body)
       THEN /\ whPc' = IF CatchFollowsThen THEN "rejected" ELSE "thrown"
            /\ whErr' = "TypeError"
            /\ whResult' = whResult
       ELSE /\ whPc' = "done"
            /\ whErr' = whErr
            /\ whResult' = ThenResult(whSettled.status, whSettled.body)
    /\ UNCHANGED <<whRule, whSettled>>
    /\ UNCHANGED <<dbVars, ev, pg, moreVars>>

\* .catch((err) => ...)
WebhookCatch ==
    /\ whPc = "rejected"
    /\ whPc' = "done"
    /\ whResult' = CatchResult(whErr, whRule)
    /\ UNCHANGED <<whRule, whSettled, whErr>>
    /\ UNCHANGED <<dbVars, ev, pg, moreVars>>

NextWebhook ==
    \/ \E o \in HttpOutcomes : WebhookPost(o)
    \/ WebhookSettle
    \/ WebhookThen
    \/ WebhookCatch

SpecWebhook == InitWebhook /\ [][NextWebhook]_vars

\* the event loop runs every settled promise's handler and fires every
\* armed timer
SpecWebhookFair ==
    /\ SpecWebhook
    /\ WF_vars(WebhookSettle)
    /\ WF_vars(WebhookThen)
    /\ WF_vars(WebhookCatch)

(***************************************************************************)
(* Properties of the webhook check, checked under SpecWebhook              *)
(***************************************************************************)
Returned == whPc = "done"
Responded(status) == whSettled.kind = "response" /\ whSettled.status = status

\* the call failed: no response, or a status outside 2xx and 400
CallFailed ==
    \/ whSettled.kind \in {"timeout", "network"}
    \/ /\ whSettled.kind = "response"
       /\ whSettled.status # 400
       /\ (whSettled.status < 200 \/ whSettled.status > 299)

\* t occurs in str
Contains(str, t) ==
    \E i \in 1..(Len(str) - Len(t) + 1) : SubSeq(str, i, i + Len(t) - 1) = t

\* msg consists of the first n characters of str (all of str when shorter)
IsPrefixOfLength(msg, str, n) ==
    /\ Len(msg) = (IF Len(str) < n THEN Len(str) ELSE n)
    /\ \A i \in 1..Len(msg) : SubSeq(msg, i, i) = SubSeq(str, i, i)

\* C6: a response with status 200 gives result = true and one with status
\* 400 gives result = false, whatever the failureMode and the body, and
\* neither is handled as a failed call.
C6_StatusDecidesResult ==
    /\ (Returned /\ Responded(200)) => (whResult.result = TRUE /\ whErr = "none")
    /\ (Returned /\ Responded(400)) => (whResult.result = FALSE /\ whErr = "none")

\* C7: on status 200 or 400 the returned message is the body's message cut to
\* its first 75 characters when the body carries one, and otherwise
\* "Webhook rule triggered" (200) or "Webhook rule did not trigger" (400).
C7_MessageResolution ==
    (Returned /\ (Responded(200) \/ Responded(400))) =>
        IF whSettled.body.kind = "string" /\ whSettled.body.message # ""
        THEN IsPrefixOfLength(whResult.message, whSettled.body.message, 75)
        ELSE whResult.message = (IF whSettled.status = 200
                                 THEN "Webhook rule triggered"
                                 ELSE "Webhook rule did not trigger")

\* C8: every CheckResult returned has a message of 1 to 75 characters.
C8_MessagePresentAndBounded ==
    Returned => (whResult.kind = "result"
                 /\ Len(whResult.message) >= 1 /\ Len(whResult.message) <= 75)

C8_Witness ==
    /\ Returned /\ Responded(200)
    /\ whSettled.body.kind = "string" /\ Len(whSettled.body.message) > 75
    /\ Len(whResult.message) = 75

\* C9: when the call fails (timeout, network error, status not accepted) the
\* result is true under failureMode "trigger" and false under "doNotTrigger".
C9_FailureModeDecidesResult ==
    (Returned /\ CallFailed) => (whResult.result = (whRule = "trigger"))

C9_Witness ==
    /\ Returned /\ whSettled.kind = "timeout" /\ whRule = "trigger"
    /\ whResult.result = TRUE

\* C10: the message of a failed check tells the kind of failure and the mode:
\* a timeout has the timeout text and never the generic one, any other
\* failure the generic text and never the timeout one, and each names the
\* rule's failureMode; so the four combinations give four different texts.
C10_FailureMessageIdentifiesKindAndMode ==
    (Returned /\ CallFailed) =>
        /\ Contains(whResult.message, "respond within 5s") <=> (whSettled.kind = "timeout")
        /\ Contains(whResult.message, "Webhook failed") <=> (whSettled.kind # "timeout")
        /\ Contains(whResult.message, "set to trigger on failure") <=> (whRule = "trigger")
        /\ Contains(whResult.message, "set to not trigger on failure") <=> (whRule = "doNotTrigger")

C10_Witness ==
    /\ Returned /\ whSettled.kind = "timeout" /\ whRule = "doNotTrigger"
    /\ Contains(whResult.message, "did not respond")

\* C11: the webhook check never ends with an exception: an error of the call
\* or of the .then() handler is turned into a CheckResult, and the
\* CheckResult returned holds a boolean result.
C11_WebhookNeverThrows ==
    /\ whPc # "thrown"
    /\ Returned => (whResult.kind = "result" /\ whResult.result \in BOOLEAN)
    /\ (whErr # "none" /\ whPc \notin {"rejected", "thrown"}) => Returned

C11_Witness ==
    /\ Returned /\ whErr = "TypeError"
    /\ whResult.kind = "result"

\* C12: every started webhook check completes; when the endpoint does not
\* respond, the timeout fires and the check returns the timeout outcome.
C12_WebhookCompletes ==
    (whPc = "pending") ~>
        (/\ Returned
         /\ whSettled.kind = "timeout" =>
                (whErr = "ECONNABORTED" /\ Contains(whResult.message, "respond within 5s")))

C12_Witness ==
    /\ Returned /\ whSettled.kind = "timeout"
    /\ whErr = "ECONNABORTED"

(***************************************************************************)
(* The rule evaluation engine: evaluate(group, input) over one group.      *)
(* A child is a configured check (or a nested group) with the boolean it   *)
(* returns, its inverted flag, and its position as its message.            *)
(***************************************************************************)
\* Most children of a rule group in the model.
MaxChildren == 3

Operators == {"AND", "OR"}
Children == [value : BOOLEAN, inverted : BOOLEAN]

RECURSIVE SeqsUpTo(_, _)
\* the sequences over set of length 0..n
SeqsUpTo(set, n) ==
    IF n = 0 THEN {<<>>}
    ELSE LET shorter == SeqsUpTo(set, n - 1)
         IN  shorter \cup {Append(q, x) : q \in {r \in shorter : Len(r) = n - 1}, x \in set}

\* `inverted` flips the boolean of a child and keeps its message
ChildResult(child) == IF child.inverted THEN ~child.value ELSE child.value

\* Mutation: an AND group goes on after a failing child.
AndStops_never(result) == FALSE

\* an AND group stops at the first child that returns false
AndStops(result) == ~result

\* Mutation: an OR group goes on after a passing child.
OrStops_never(result) == FALSE

\* an OR group stops at the first child that returns true
OrStops(result) == result

ShortCircuits(operator, result) ==
    IF operator = "AND" THEN AndStops(result) ELSE OrStops(result)

InitEvaluate ==
    /\ InitDb
    /\ WhIdle
    /\ PgIdle
    /\ MoreIdle
    /\ \E op \in Operators, ch \in SeqsUpTo(Children, MaxChildren) :
           ev = [pc |-> "run", operator |-> op, children |-> ch, next |-> 1,
                 invoked |-> <<>>, result |-> FALSE, reason |-> 0]

\* the next child in sequence order is invoked; the group returns at once
\* when the child decides it
EvaluateChild ==
    /\ ev.pc = "run"
    /\ ev.next <= Len(ev.children)
    /\ LET r == ChildResult(ev.children[ev.next])
       IN  ev' = IF ShortCircuits(ev.operator, r)
                 THEN [ev EXCEPT !.pc = "done", !.invoked = Append(@, ev.next),
                                 !.result = r, !.reason = ev.next]
                 ELSE [ev EXCEPT !.next = @ + 1, !.invoked = Append(@, ev.next),
                                 !.reason = ev.next]
    /\ UNCHANGED <<dbVars, whVars, pg, moreVars>>

\* no child decided the group: AND is true, OR is false
EvaluateReturn ==
    /\ ev.pc = "run"
    /\ ev.next > Len(ev.children)
    /\ ev' = [ev EXCEPT !.pc = "done", !.result = (ev.operator = "AND")]
    /\ UNCHANGED <<dbVars, whVars, pg, moreVars>>

NextEvaluate ==
    \/ EvaluateChild
    \/ EvaluateReturn

SpecEvaluate == InitEvaluate /\ [][NextEvaluate]_vars

\* what child i returns to the group
Outcome(i) == ev.children[i].value # ev.children[i].inverted

\* the children invoked so far are the first ones, in sequence order
InvokedInOrder == \A i \in 1..Len(ev.invoked) : ev.invoked[i] = i

\* C13: an AND group returns false at the first child, in sequence order,
\* that returns false, with that child's message as the reason, and invokes
\* no child after it.
C13_AndShortCircuits ==
    (ev.pc # "off" /\ ev.operator = "AND") =>
        /\ InvokedInOrder
        /\ \A i \in 1..Len(ev.invoked) :
               ~Outcome(i) => /\ i = Len(ev.invoked)
                              /\ ev.pc = "done" /\ ev.result = FALSE /\ ev.reason = i
        /\ (ev.pc = "done" /\ ev.result = FALSE) =>
               (ev.invoked # <<>> /\ ~Outcome(Len(ev.invoked)))

C13_Witness ==
    /\ ev.pc = "done" /\ ev.operator = "AND" /\ ev.result = FALSE
    /\ Len(ev.invoked) = 2 /\ Len(ev.children) = 3
    /\ Outcome(3)

\* C14: an OR group returns true at the first child, in sequence order, that
\* returns true and invokes no child after it; it returns false only when
\* every child returned false.
C14_OrShortCircuits ==
    (ev.pc # "off" /\ ev.operator = "OR") =>
        /\ InvokedInOrder
        /\ \A i \in 1..Len(ev.invoked) :
               Outcome(i) => /\ i = Len(ev.invoked)
                             /\ ev.pc = "done" /\ ev.result = TRUE
        /\ (ev.pc = "done" /\ ev.result = FALSE) =>
               /\ Len(ev.invoked) = Len(ev.children)
               /\ \A i \in 1..Len(ev.children) : ~Outcome(i)

C14_Witness ==
    /\ ev.pc = "done" /\ ev.operator = "OR" /\ ev.result = TRUE
    /\ Len(ev.invoked) = 2 /\ Len(ev.children) = 3
    /\ ~Outcome(3)

(***************************************************************************)
(* loader() of the activity route: the paginated read of ModerationLog,    *)
(* and the paging the Screen derives from what the loader returns.         *)
(***************************************************************************)
\* Most rows of ModerationLog when the loader runs.
MaxTotal == 5

defaultPageSize == 50
maxPageSize == 100

\* a JavaScript number as far as getPageInfo tells them apart
NaN == [nan |-> TRUE, n |-> 0]
Num(n) == [nan |-> FALSE, n |-> n]
isNaN(x) == x.nan

MathMax(a, b) == IF a.nan \/ b.nan THEN NaN ELSE Num(IF a.n >= b.n THEN a.n ELSE b.n)
MathMin(a, b) == IF a.nan \/ b.nan THEN NaN ELSE Num(IF a.n <= b.n THEN a.n ELSE b.n)
Minus(a, b) == IF a.nan \/ b.nan THEN NaN ELSE Num(a.n - b.n)
Times(a, b) == IF a.nan \/ b.nan THEN NaN ELSE Num(a.n * b.n)

\* the character of str at position i, "" past its end
CharAt(str, i) == IF i \in 1..Len(str) THEN SubSeq(str, i, i) ELSE ""

DigitChars == <<"0", "1", "2", "3", "4", "5", "6", "7", "8", "9",
                "a", "b", "c", "d", "e", "f">>
UpperDigitChars == <<"0", "1", "2", "3", "4", "5", "6", "7", "8", "9",
                     "A", "B", "C", "D", "E", "F">>
NoDigit == 36

\* the value of a digit character, NoDigit for any other character
DigitValue(ch) ==
    IF \E i \in 1..Len(DigitChars) : DigitChars[i] = ch
    THEN (CHOOSE i \in 1..Len(DigitChars) : DigitChars[i] = ch) - 1
    ELSE IF \E i \in 1..Len(UpperDigitChars) : UpperDigitChars[i] = ch
    THEN (CHOOSE i \in 1..Len(UpperDigitChars) : UpperDigitChars[i] = ch) - 1
    ELSE NoDigit

RECURSIVE SkipWhiteSpace(_, _)
\* the first position from i on that holds no white space
SkipWhiteSpace(str, i) ==
    IF CharAt(str, i) = " " THEN SkipWhiteSpace(str, i + 1) ELSE i

RECURSIVE ParseDigits(_, _, _, _, _)
\* the longest run of digits of the radix from position i on
ParseDigits(str, i, radix, seen, n) ==
    IF CharAt(str, i) # "" /\ DigitValue(CharAt(str, i)) < radix
    THEN ParseDigits(str, i + 1, radix, TRUE, n * radix + DigitValue(CharAt(str, i)))
    ELSE [seen |-> seen, n |-> n]

\* parseInt(str) without a radix: white space, a sign, 0x for radix 16, then
\* digits up to the first character that is none; NaN when there is no digit
parseInt(str) ==
    LET i == SkipWhiteSpace(str, 1)
        negative == CharAt(str, i) = "-"
        j == IF CharAt(str, i) \in {"+", "-"} THEN i + 1 ELSE i
        hex == CharAt(str, j) = "0" /\ CharAt(str, j + 1) \in {"x", "X"}
        digits == IF hex THEN ParseDigits(str, j + 2, 16, FALSE, 0)
                  ELSE ParseDigits(str, j, 10, FALSE, 0)
    IN  IF ~digits.seen THEN NaN
        ELSE Num(IF negative THEN 0 - digits.n ELSE digits.n)

\* url.searchParams.get(name): null when the parameter is absent
Absent == [present |-> FALSE, value |-> ""]
Given(value) == [present |-> TRUE, value |-> value]

QueryValues ==
    {"", "0", "1", "2", "3", "50", "100", "101", "-1", "abc", "2x", "x2",
     " 2", "+3", "0x10", "0xg", "1.5", "-"}
QueryParams == {Absent} \cup {Given(v) : v \in QueryValues}

\* param || fallback: null and "" are falsy
OrElse(param, fallback) ==
    IF ~param.present \/ param.value = "" THEN fallback ELSE param.value

\* Mutation: the page size is not capped.
CappedPageSize_uncapped(n) == n

\* Math.min(n, 100)
CappedPageSize(n) == MathMin(n, Num(maxPageSize))

getPageInfo(pageParam, pageSizeParam) ==
    LET page == MathMax(parseInt(OrElse(pageParam, "1")), Num(1))
        pageSize == MathMax(CappedPageSize(parseInt(OrElse(pageSizeParam,
                                ToString(defaultPageSize)))), Num(0))
        skip == Times(Minus(page, Num(1)), pageSize)
    IN  [page |-> IF isNaN(page) THEN 1 ELSE page.n,
         pageSize |-> IF isNaN(pageSize) THEN defaultPageSize ELSE pageSize.n,
         skip |-> IF isNaN(skip) THEN 0 ELSE skip.n]

RECURSIVE Reversed(_)
Reversed(q) == IF q = <<>> THEN <<>> ELSE Append(Reversed(Tail(q)), Head(q))

\* orderBy: { createdAt: "desc" } over where: { channelId }; rows are
\* inserted in the order of their createdAt
NewestFirst(channelId) ==
    Reversed(SelectSeq(moderationLog, LAMBDA l : l.channelId = channelId))

\* Mutation: the offset is ignored.
Skipped_none(rows, skip) == rows

\* skip: the rows after the first skip ones
Skipped(rows, skip) ==
    IF skip >= Len(rows) THEN <<>> ELSE SubSeq(rows, skip + 1, Len(rows))

\* take: at most the first take rows
Taken(rows, take) == IF take >= Len(rows) THEN rows ELSE SubSeq(rows, 1, take)

findMany(channelId, take, skip) == Taken(Skipped(NewestFirst(channelId), skip), take)

count(channelId) == Len(NewestFirst(channelId))

NoPage == 0

\* Math.ceil(a / b) for a >= 0, b > 0
MathCeil(a, b) == (a + b - 1) \div b

\* page + 1 > Math.ceil(total / pageSize) ? null : page + 1, where total / 0
\* is Infinity or NaN and no number is greater than either
nextPage(page, pageSize, total) ==
    IF pageSize = 0 THEN page + 1
    ELSE IF page + 1 > MathCeil(total, pageSize) THEN NoPage
    ELSE page + 1

\* ModerationLog as the triggers of the channels left it
MutedLog(channels) ==
    [i \in 1..Len(channels) |->
        [id |-> i, action |-> "mute", affectedUserFid |-> "7", actor |-> "automod",
         channelId |-> channels[i], castHash |-> NoHash]]

InitLoader ==
    /\ InitTables
    /\ \E channels \in SeqsUpTo(ChannelIds, MaxTotal) :
           /\ moderationLog = MutedLog(channels)
           /\ nextLogId = Len(channels) + 1
    /\ WhIdle
    /\ EvIdle
    /\ MoreIdle
    /\ pg = [pc |-> "start"]

\* one GET of the activity route, and the next page the Screen offers
Loader(userId, channelId, pageParam, pageSizeParam) ==
    /\ pg.pc = "start"
    /\ IF ~requireUserCanModerateChannel(userId, channelId)
       THEN pg' = [pc |-> "done", status |-> 403, channelId |-> channelId,
                   pageParam |-> pageParam, pageSizeParam |-> pageSizeParam,
                   page |-> 0, pageSize |-> 0, skip |-> 0,
                   moderationLogs |-> <<>>, total |-> 0, nextPage |-> NoPage]
       ELSE LET info == getPageInfo(pageParam, pageSizeParam)
                total == count(channelId)
            IN  pg' = [pc |-> "done", status |-> 200, channelId |-> channelId,
                       pageParam |-> pageParam, pageSizeParam |-> pageSizeParam,
                       page |-> info.page, pageSize |-> info.pageSize,
                       skip |-> info.skip,
                       moderationLogs |-> findMany(channelId, info.pageSize, info.skip),
                       total |-> total,
                       nextPage |-> nextPage(info.page, info.pageSize, total)]
    /\ UNCHANGED <<dbVars, whVars, ev, moreVars>>

NextLoader ==
    \E u \in Users, c \in ChannelIds, p \in QueryParams, s \in QueryParams :
        Loader(u, c, p, s)

SpecLoader == InitLoader /\ [][NextLoader]_vars

Loaded == pg.pc = "done" /\ pg.status = 200

\* the parameter is missing from the query or empty
Missing(param) == param = Absent \/ param = Given("")

\* the text has no integer to read: past white space and a sign, its first
\* character is no decimal digit
NotANumber(param) ==
    /\ param.present
    /\ \E i \in 1..(Len(param.value) + 1) :
           /\ \A k \in 1..(i - 1) : CharAt(param.value, k) = " "
           /\ \/ CharAt(param.value, i) \notin
                     {" ", "+", "-", "0", "1", "2", "3", "4", "5", "6", "7", "8", "9"}
              \/ /\ CharAt(param.value, i) \in {"+", "-"}
                 /\ CharAt(param.value, i + 1) \notin
                        {"0", "1", "2", "3", "4", "5", "6", "7", "8", "9"}

\* C15: whatever the page and pageSize parameters of a read of the audit
\* log are, the effective pageSize is within 0..100 and is 50 when the
\* parameter is absent or not a number, and the effective page is at least 1.
C15_PageInfoBounded ==
    Loaded =>
        /\ pg.pageSize \in 0..100
        /\ (Missing(pg.pageSizeParam) \/ NotANumber(pg.pageSizeParam)) => pg.pageSize = 50
        /\ pg.page >= 1

C15_Witness ==
    /\ Loaded
    /\ pg.pageSizeParam = Given("101") /\ pg.pageSize = 100
    /\ pg.pageParam = Given("-1") /\ pg.page = 1

\* the text is a decimal numeral
IsDecimal(str) ==
    /\ str # ""
    /\ \A i \in 1..Len(str) :
           CharAt(str, i) \in {"0", "1", "2", "3", "4", "5", "6", "7", "8", "9"}

\* the logs of the channel newer than the log
Newer(log) ==
    {i \in 1..Len(moderationLog) :
        moderationLog[i].channelId = log.channelId /\ i > log.id}

LogsOf(channelId) ==
    {i \in 1..Len(moderationLog) : moderationLog[i].channelId = channelId}

\* C16: for a channel with N logs and a page size s in 1..100, page p
\* returns the logs at the newest-first positions (p-1)*s+1 .. min(p*s, N),
\* and nextPage is null exactly when p is the last page or beyond it.
C16_PagesPartitionLogs ==
    (/\ Loaded
     /\ Missing(pg.pageSizeParam) \/ IsDecimal(pg.pageSizeParam.value)
     /\ pg.pageSize \in 1..100) =>
        LET N == Cardinality(LogsOf(pg.channelId))
            p == pg.page
            s == pg.pageSize
            first == (p - 1) * s + 1
            lastPos == IF p * s <= N THEN p * s ELSE N
        IN  /\ Len(pg.moderationLogs) = IF lastPos >= first THEN lastPos - first + 1 ELSE 0
            /\ \A k \in 1..Len(pg.moderationLogs) :
                   /\ pg.moderationLogs[k] = moderationLog[pg.moderationLogs[k].id]
                   /\ pg.moderationLogs[k].channelId = pg.channelId
                   /\ Cardinality(Newer(pg.moderationLogs[k])) = first + k - 2
            /\ pg.total = N
            /\ (pg.nextPage = NoPage) <=> (p * s >= N)
            /\ pg.nextPage # NoPage => pg.nextPage = p + 1

C16_Witness ==
    /\ Loaded
    /\ pg.pageSizeParam = Given("2") /\ pg.pageParam = Given("3")
    /\ Cardinality(LogsOf(pg.channelId)) = 5
    /\ Len(pg.moderationLogs) = 1
    /\ pg.nextPage = NoPage
(***************************************************************************)
(* action() of the settings route: deleteChannel and                       *)
(* updateBannedListSetting, one request from start to response.            *)
(***************************************************************************)
SettingsResponse(userId, channelId, intent, status) ==
    [IdleLast EXCEPT !.kind = "settings",
                     !.permitted = IsLeadOrComod(userId, channelId),
                     !.channelId = channelId, !.intent = intent, !.status = status,
                     !.logsBefore = Len(moderationLog),
                     !.byLead = /\ channelId \in DOMAIN moderatedChannel
                                /\ moderatedChannel[channelId].userId = userId]

\* Mutation: deleteMany without the where clause.
LogsWithout_any(channelId) == <<>>

\* db.moderationLog.deleteMany({ where: { channelId } })
LogsWithout(channelId) ==
    SelectSeq(moderationLog, LAMBDA l : l.channelId # channelId)

\* the three deleteMany calls and the delete of the channel row
DeleteChannel(userId, channelId) ==
    /\ comods' = {m \in comods : m.channelId # channelId}
    /\ moderationLog' = LogsWithout(channelId)
    /\ castLog' = {l \in castLog : l.channelId # channelId}
    /\ moderatedChannel' =
           [c \in DOMAIN moderatedChannel \ {channelId} |-> moderatedChannel[c]]
    /\ last' = SettingsResponse(userId, channelId, "deleteChannel", 200)
    /\ UNCHANGED <<cooldown, nextLogId, unhideOk>>

UpdateBannedListSetting(userId, channelId, followBannedList) ==
    /\ moderatedChannel' =
           [moderatedChannel EXCEPT ![channelId].disableBannedList = followBannedList]
    /\ last' = SettingsResponse(userId, channelId, "updateBannedListSetting", 200)
    /\ UNCHANGED <<comods, castLog, cooldown, moderationLog, nextLogId, unhideOk>>

SettingsAction(userId, channelId) ==
    /\ IF ~requireUserCanModerateChannel(userId, channelId)
       THEN /\ last' = SettingsResponse(userId, channelId, "none", 403)
            /\ UNCHANGED <<chanVars, cooldown, moderationLog, nextLogId, unhideOk>>
       ELSE \E intent \in RawSettingsIntents :
                IF intent \notin SettingsIntents
                THEN /\ last' = SettingsResponse(userId, channelId, "none", 400)
                     /\ UNCHANGED <<chanVars, cooldown, moderationLog, nextLogId, unhideOk>>
                ELSE IF intent = "deleteChannel"
                THEN DeleteChannel(userId, channelId)
                ELSE \E v \in BannedListValues :
                         UpdateBannedListSetting(userId, channelId, v)
    /\ UNCHANGED notDb

NextSettings ==
    \/ \E a \in TriggerActions, f \in AffectedUsers, c \in ChannelIds,
          h \in CastHashes \cup {NoHash} : Trigger(a, f, c, h)
    \/ \E u \in Users, c \in SettingsChannels : ActivityAction(u, c)
    \/ \E u \in Users, c \in SettingsChannels : SettingsAction(u, c)

SpecSettings == Init /\ [][NextSettings]_vars

Settings(r) == r.kind = "settings"

\* C17: a deleteChannel request from a user who is not the lead of the
\* channel leaves the channel and its comods, moderation logs and cast logs
\* in place.
C17_OnlyLeadDeletesChannel ==
    [][(Settings(last') /\ last'.intent = "deleteChannel" /\ ~last'.byLead)
       => /\ moderatedChannel' = moderatedChannel
          /\ comods' = comods
          /\ moderationLog' = moderationLog
          /\ castLog' = castLog]_vars

\* the channel of the entry is deleted in this step
ChannelDeleted(entry) ==
    /\ entry.channelId \in DOMAIN moderatedChannel
    /\ entry.channelId \notin DOMAIN moderatedChannel'

C19_LogOnlyAfterCooldownUpdate ==
    (ReachedLog(last) /\ last.intent \in {"end-cooldown", "unmute"}) =>
        /\ (last.before = "absent" \/ last.update = "throws") =>
               /\ last.status = 500
               /\ InsertedSince(last, moderationLog) = <<>>
               /\ cooldown[<<last.affected, last.channelId>>] = last.before
        /\ InsertedSince(last, moderationLog) # <<>> =>
               /\ last.update = "ok"
               /\ last.status = 200
               /\ cooldown[<<last.affected, last.channelId>>] = "inactive"

C19_Witness ==
    /\ ReachedLog(last) /\ last.intent = "unmute"
    /\ last.before = "active" /\ last.update = "throws" /\ last.status = 500
    /\ cooldown[<<last.affected, last.channelId>>] = "active"

\* C20: an end-cooldown request on a pair whose cooldown a previous
\* end-cooldown request has ended returns the success response again and
\* leaves the Cooldown record and ModerationLog as they were.
C20_RepeatedEndCooldownIsNoOp ==
    [][(/\ Manual(last) /\ last.intent = "end-cooldown" /\ last.status = 200
        /\ Manual(last') /\ last'.intent = "end-cooldown"
        /\ last'.affected = last.affected /\ last'.channelId = last.channelId
        /\ last'.castHash = last.castHash
        /\ last'.update # "throws")
       => /\ last'.status = 200
          /\ cooldown' = cooldown
          /\ moderationLog' = moderationLog]_vars

(***************************************************************************)
(* Further claims about the activity route                                 *)
(***************************************************************************)
\* the pair is muted according to the log: its latest mute / unmuted entry
\* is a mute
Muted(rows, affected, channelId) ==
    LET about == {i \in 1..Len(rows) :
                     /\ rows[i].action \in {"mute", "unmuted"}
                     /\ rows[i].affectedUserFid = affected
                     /\ rows[i].channelId = channelId}
    IN  /\ about # {}
        /\ rows[CHOOSE i \in about : \A j \in about : j <= i].action = "mute"

\* C22: the cooldown state and the muted state of a pair evolve
\* independently: an unmute request never ends an active cooldown of the
\* pair, an end-cooldown request never changes whether the pair is muted,
\* and unhide changes neither.
C22_CooldownAndMuteIndependent ==
    [][ReachedLog(last') =>
        LET pair == <<last'.affected, last'.channelId>>
            sameMuted == Muted(moderationLog', pair[1], pair[2])
                             = Muted(moderationLog, pair[1], pair[2])
        IN  /\ (last'.intent = "unmute" /\ cooldown[pair] = "active")
                   => cooldown'[pair] = "active"
            /\ last'.intent = "end-cooldown" => sameMuted
            /\ last'.intent = "unhide" => (cooldown' = cooldown /\ sameMuted)]_vars

\* C25: a manual action acts on data of the request's channel only: when the
\* cast hash of the referenced log is passed to the unhide API, or its
\* affected user is used to end a cooldown or to unmute, the log belongs to
\* the channel of the request.
C25_ActsOnOwnChannelOnly ==
    [][\A u \in Users, c \in ChannelIds, i \in 1..Len(moderationLog) :
           LET log == moderationLog[i]
           IN  (/\ requireUserCanModerateChannel(u, c)
                /\ \E intent \in Intents : HandleForm(u, c, log.id, intent)
                /\ last'.unhide # "notCalled" \/ last'.update # "notCalled")
               => log.channelId = c]_vars

\* The form of the activity route posted for one channel, the one that has
\* a lead, a co-moderator and a stranger among Users; the rule-triggered
\* actions go on in both channels.
FormChannels == {"c1"}

NextForm ==
    \/ \E a \in TriggerActions, f \in AffectedUsers, c \in ChannelIds,
          h \in CastHashes \cup {NoHash} : Trigger(a, f, c, h)
    \/ \E u \in Users, c \in FormChannels : ActivityAction(u, c)

SpecForm == Init /\ [][NextForm]_vars

\* the request is answered with the status and nothing was touched
RejectedWith(status) ==
    /\ last'.status = status
    /\ cooldown' = cooldown
    /\ moderationLog' = moderationLog
    /\ unhideOk' = unhideOk
    /\ last'.unhide = "notCalled"
    /\ last'.update = "notCalled"

\* C26: a manual action request without logId or with an intent outside
\* {end-cooldown, unmute, unhide} is answered with 422, one whose logId
\* matches no ModerationLog with 404; in both cases no Cooldown is updated,
\* no ModerationLog is appended and the unhide API is not called.  Stated
\* per step: a step that is not such a rejection is not the handling of
\* such a request.
C26_MalformedOrUnknownLogRejected ==
    [][\A u \in Users :
           LET c == last'.channelId
           IN  (Manual(last') /\ requireUserCanModerateChannel(u, c)) =>
               /\ ~RejectedWith(422) =>
                      \A logId \in RawLogIds, intent \in RawIntents :
                          (logId = MissingLogId
                           \/ intent \notin {"end-cooldown", "unmute", "unhide"})
                              => ~HandleForm(u, c, logId, intent)
               /\ ~RejectedWith(404) =>
                      \A logId \in RawLogIds, intent \in RawIntents :
                          (/\ logId # MissingLogId
                           /\ intent \in {"end-cooldown", "unmute", "unhide"}
                           /\ \A i \in 1..Len(moderationLog) : moderationLog[i].id # logId)
                              => ~HandleForm(u, c, logId, intent)]_vars

C26_Witness ==
    /\ Manual(last) /\ last.permitted /\ last.status = 404
    /\ moderationLog # <<>>
    /\ \E pair \in DOMAIN cooldown : cooldown[pair] = "active"

\* C27: the three values returned by getPageInfo are consistent:
\* skip = (page - 1) * pageSize.
C27_PageInfoConsistent ==
    Loaded => pg.skip = (pg.page - 1) * pg.pageSize

(***************************************************************************)
(* canUserExecuteAction (utils.server): lead and co-moderators may do      *)
(* everything, a delegate what the permissions string of the role holds.   *)
(***************************************************************************)
\* action types, by their names in the ModerationLog action enum
ActionTypes == {"cooldown", "cooldownEnded", "mute"}
ActionOrder == <<"cooldown", "cooldownEnded", "mute">>
DelegateUsers == {"u3"}

\* the permission id that stands for an action
actionToPermission(action) == "action:" \o action

RECURSIVE Joined(_, _)
\* Role.permissions, one string column: the ids of the granted permissions
Joined(grants, i) ==
    IF i > Len(ActionOrder) THEN ""
    ELSE IF ActionOrder[i] \in grants
    THEN actionToPermission(ActionOrder[i]) \o "," \o Joined(grants, i + 1)
    ELSE Joined(grants, i + 1)

RolePermissions(grants) == Joined(grants, 1)

\* Delegate rows with the permissions of their role
DelegateRows ==
    [fid : DelegateUsers, channelId : ChannelIds,
     permissions : {RolePermissions(g) : g \in SUBSET ActionTypes}]

\* the string filter `contains` of the query: needle occurs somewhere in str
StringContains(str, needle) ==
    \E i \in 1..(Len(str) - Len(needle) + 1) :
        SubSeq(str, i, i + Len(needle) - 1) = needle

\* db.delegate.findFirst({ where: { channelId, fid, role: { permissions:
\* { contains } } } })
FindDelegate(rows, userId, channelId, permission) ==
    {d \in rows : /\ d.channelId = channelId
                  /\ d.fid = userId
                  /\ StringContains(d.permissions, permission)}

canUserExecuteAction(rows, userId, channelId, action) ==
    IF canUserModerateChannel(userId, channelId) THEN TRUE
    ELSE FindDelegate(rows, userId, channelId, actionToPermission(action)) # {}

InitPermission ==
    /\ InitDb
    /\ WhIdle
    /\ EvIdle
    /\ PgIdle
    /\ ReqIdle /\ ValIdle /\ GscIdle /\ DebIdle /\ DelIdle
    /\ \E rows \in {{}} \cup {{d} : d \in DelegateRows} :
           perm = [pc |-> "start", delegates |-> rows]

CanUserExecuteAction(userId, channelId, action) ==
    /\ perm.pc = "start"
    /\ perm' = [pc |-> "done", delegates |-> perm.delegates,
                userId |-> userId, channelId |-> channelId, action |-> action,
                result |-> canUserExecuteAction(perm.delegates, userId, channelId, action)]
    /\ UNCHANGED <<dbVars, whVars, ev, pg, req, val, gsc, deb, del>>

NextPermission ==
    \E u \in Users, c \in ChannelIds, a \in ActionTypes : CanUserExecuteAction(u, c, a)

SpecPermission == InitPermission /\ [][NextPermission]_vars

\* the role of the delegate row grants the permission of the action: the
\* id is one of the ids listed in the column
Grants(d, action) ==
    \E g \in SUBSET ActionTypes : d.permissions = RolePermissions(g) /\ action \in g

deployers == "0x8ce608ce2b5004397faef1556bfe33bdfbe4696d"
degen == "0xa8a30E0dafCA4156f28d96cCa5671a0eEcA5E407"

ChainIds == {Absent, Given(""), Given("8453")}
ContractAddresses ==
    {Absent, Given(""),
     Given(deployers),
     Given("0x8CE608CE2B5004397FAEF1556BFE33BDFBE4696D"),
     Given(degen),
     Given("0xa8a30e0dafca4156f28d96cca5671a0eeca5e407"),
     Given("0x704CF202792341d79A9Fd6DD97046aa7eF3F4319"),
     Given("0x123")}
\* contract.read.supportsInterface(...): a boolean, or the call rejects
InterfaceReads == {"true", "false", "throws"}
\* contract.read.allowance(...): an amount, or the call rejects
AllowanceReads == {"zero", "positive", "throws"}

UpperHex == <<"A", "B", "C", "D", "E", "F">>
LowerHex == <<"a", "b", "c", "d", "e", "f">>

toLowerCaseChar(ch) ==
    IF \E i \in 1..Len(UpperHex) : UpperHex[i] = ch
    THEN LowerHex[CHOOSE i \in 1..Len(UpperHex) : UpperHex[i] = ch]
    ELSE ch

RECURSIVE toLowerCase(_)
toLowerCase(str) ==
    IF str = "" THEN ""
    ELSE toLowerCaseChar(SubSeq(str, 1, 1)) \o toLowerCase(SubSeq(str, 2, Len(str)))

\* !value of an optional string: undefined and "" are falsy
Falsy(param) == ~param.present \/ param.value = ""

\* getAddress(address) throws unless the text is 0x and 40 hex digits
IsAddress(str) ==
    /\ Len(str) = 42
    /\ SubSeq(str, 1, 2) = "0x"
    /\ \A i \in 3..Len(str) : DigitValue(SubSeq(str, i, i)) < 16

Returns(value, readCalled) == [kind |-> "returned", value |-> value, readCalled |-> readCalled]
Throws == [kind |-> "thrown", value |-> FALSE, readCalled |-> FALSE]

\* contract.read.supportsInterface([...]).catch(() => false)
SupportsInterface(read) == read = "true"

validateErc1155(chainId, contractAddress, read) ==
    IF Falsy(chainId) \/ Falsy(contractAddress) THEN Returns(FALSE, FALSE)
    ELSE IF ~IsAddress(contractAddress.value) THEN Throws
    ELSE Returns(SupportsInterface(read), TRUE)

validateErc721(chainId, contractAddress, read) ==
    IF contractAddress.present
       /\ toLowerCase(contractAddress.value) = toLowerCase(deployers)
    THEN Returns(TRUE, FALSE)
    ELSE IF Falsy(chainId) \/ Falsy(contractAddress) THEN Returns(FALSE, FALSE)
    ELSE IF ~IsAddress(contractAddress.value) THEN Throws
    ELSE Returns(SupportsInterface(read), TRUE)

\* anyAllowance !== false, where a rejected read was turned into false
validateErc20(chainId, contractAddress, read) ==
    IF Falsy(chainId) \/ Falsy(contractAddress) THEN Returns(FALSE, FALSE)
    ELSE IF toLowerCase(contractAddress.value) = toLowerCase(degen)
    THEN Returns(TRUE, FALSE)
    ELSE IF ~IsAddress(contractAddress.value) THEN Throws
    ELSE Returns(read # "throws", TRUE)

InitValidate ==
    /\ InitDb
    /\ WhIdle
    /\ EvIdle
    /\ PgIdle
    /\ ReqIdle /\ PermIdle /\ GscIdle /\ DebIdle /\ DelIdle
    /\ val = [pc |-> "start"]

Validated(fn, chainId, contractAddress, read, outcome) ==
    /\ val.pc = "start"
    /\ val' = [pc |-> "done", fn |-> fn, chainId |-> chainId,
               contractAddress |-> contractAddress, read |-> read, outcome |-> outcome]
    /\ UNCHANGED <<dbVars, whVars, ev, pg, req, perm, gsc, deb, del>>

ValidateErc1155(chainId, contractAddress, read) ==
    Validated("validateErc1155", chainId, contractAddress, read,
              validateErc1155(chainId, contractAddress, read))

ValidateErc721(chainId, contractAddress, read) ==
    Validated("validateErc721", chainId, contractAddress, read,
              validateErc721(chainId, contractAddress, read))

ValidateErc20(chainId, contractAddress, read) ==
    Validated("validateErc20", chainId, contractAddress, read,
              validateErc20(chainId, contractAddress, read))

NextValidate ==
    \/ \E c \in ChainIds, a \in ContractAddresses, r \in InterfaceReads :
           ValidateErc1155(c, a, r)
    \/ \E c \in ChainIds, a \in ContractAddresses, r \in InterfaceReads :
           ValidateErc721(c, a, r)
    \/ \E c \in ChainIds, a \in ContractAddresses, r \in AllowanceReads :
           ValidateErc20(c, a, r)

SpecValidate == InitValidate /\ [][NextValidate]_vars

\* the argument is undefined or the empty string
MissingArgument(param) == param = Absent \/ param = Given("")

\* C24: when chainId or contractAddress is missing, or when the on-chain
\* read errors, a validation function returns false and does not throw.
C24_ValidationDefaultsToFalse ==
    (/\ val.pc = "done"
     /\ \/ MissingArgument(val.chainId)
        \/ MissingArgument(val.contractAddress)
        \/ val.outcome.readCalled /\ val.read = "throws")
    => (val.outcome.kind = "returned" /\ val.outcome.value = FALSE)

(***************************************************************************)
(* getSetCache (utils.server): callers of one key, each suspended at its   *)
(* awaits, over a key-value store.                                         *)
(***************************************************************************)
\* Callers of getSetCache for the key.
MaxCallers == 2

Callers == 1..MaxCallers
\* what get() may resolve to: values, among them a falsy one
GetValues == {"", "v1", "v2"}

\* if (cachedValue): undefined and falsy values count as a miss
Truthy(entry) == entry.present /\ entry.value # ""

InitCache ==
    /\ InitDb
    /\ WhIdle
    /\ EvIdle
    /\ PgIdle
    /\ ReqIdle /\ PermIdle /\ ValIdle /\ DebIdle /\ DelIdle
    /\ gsc = [pc |-> "run", entry |-> Absent, gets |-> 0, getsOnLive |-> 0,
              callers |-> [c \in Callers |->
                              [pc |-> "start", value |-> "", saw |-> Absent]]]

\* const cachedValue = await cache.get(key); if (cachedValue) return it
CacheGet(c) ==
    /\ gsc.pc = "run"
    /\ gsc.callers[c].pc = "start"
    /\ gsc' = [gsc EXCEPT !.callers[c] =
                   IF Truthy(gsc.entry)
                   THEN [pc |-> "done", value |-> gsc.entry.value, saw |-> gsc.entry]
                   ELSE [pc |-> "miss", value |-> "", saw |-> gsc.entry]]
    /\ UNCHANGED <<dbVars, whVars, ev, pg, req, perm, val, deb, del>>

\* const freshValue = await get()
GetFresh(c, fresh) ==
    /\ gsc.pc = "run"
    /\ gsc.callers[c].pc = "miss"
    /\ gsc' = [gsc EXCEPT !.callers[c].pc = "fresh",
                          !.callers[c].value = fresh,
                          !.gets = @ + 1,
                          !.getsOnLive = IF gsc.entry.present THEN @ + 1 ELSE @]
    /\ UNCHANGED <<dbVars, whVars, ev, pg, req, perm, val, deb, del>>

\* cache.set(key, freshValue, ttlSeconds ?? 0); return freshValue
CacheSet(c) ==
    /\ gsc.pc = "run"
    /\ gsc.callers[c].pc = "fresh"
    /\ gsc' = [gsc EXCEPT !.callers[c].pc = "done",
                          !.entry = Given(gsc.callers[c].value)]
    /\ UNCHANGED <<dbVars, whVars, ev, pg, req, perm, val, deb, del>>

NextCache ==
    \/ \E c \in Callers : CacheGet(c)
    \/ \E c \in Callers, v \in GetValues : GetFresh(c, v)
    \/ \E c \in Callers : CacheSet(c)

SpecCache == InitCache /\ [][NextCache]_vars

\* C28: get is invoked at most once for the key while its entry is live:
\* no call invokes get once a value is stored, and a call that found a
\* stored value returns it.
C28_GetInvokedOncePerKey ==
    gsc.pc = "run" =>
        /\ gsc.gets <= 1
        /\ gsc.getsOnLive = 0
        /\ \A c \in Callers :
               (gsc.callers[c].pc = "done" /\ gsc.callers[c].saw.present)
                   => gsc.callers[c].value = gsc.callers[c].saw.value

(***************************************************************************)
(* debounceAsync(func, wait) (utils.server): the calls of the wrapper, its *)
(* one timer, and the promise each call returned.  A call made while the   *)
(* timer is armed comes less than wait after the previous one.             *)
(***************************************************************************)
\* Calls of the debounced function.
MaxCalls == 4

Calls == 1..MaxCalls
NoTimer == 0
\* func(...args) resolves or rejects
FuncOutcomes == {"resolved", "rejected"}

InitDebounce ==
    /\ InitDb
    /\ WhIdle
    /\ EvIdle
    /\ PgIdle
    /\ ReqIdle /\ PermIdle /\ ValIdle /\ GscIdle /\ DelIdle
    /\ deb = [pc |-> "run", made |-> 0, timer |-> NoTimer, bursts |-> 0,
              burst |-> [i \in Calls |-> 0],
              promise |-> [i \in Calls |-> "none"],
              invoked |-> {}, running |-> {}]

\* a call of the wrapper: a new promise; clearTimeout of the armed timer;
\* setTimeout with the arguments of this call
DebounceCall ==
    /\ deb.pc = "run"
    /\ deb.made < MaxCalls
    /\ LET i == deb.made + 1
           b == IF deb.timer = NoTimer THEN deb.bursts + 1 ELSE deb.bursts
       IN  deb' = [deb EXCEPT !.made = i, !.timer = i, !.bursts = b,
                              !.burst[i] = b, !.promise[i] = "pending"]
    /\ UNCHANGED <<dbVars, whVars, ev, pg, req, perm, val, gsc, del>>

\* wait has passed since the last call: the timer callback calls func with
\* the arguments of that call
DebounceFire ==
    /\ deb.pc = "run"
    /\ deb.timer # NoTimer
    /\ deb' = [deb EXCEPT !.timer = NoTimer,
                          !.invoked = @ \cup {deb.timer},
                          !.running = @ \cup {deb.timer}]
    /\ UNCHANGED <<dbVars, whVars, ev, pg, req, perm, val, gsc, del>>

\* func settles: .then(resolve).catch(reject) of the promise of that call
DebounceSettle(i, outcome) ==
    /\ deb.pc = "run"
    /\ i \in deb.running
    /\ deb' = [deb EXCEPT !.running = @ \ {i}, !.promise[i] = outcome]
    /\ UNCHANGED <<dbVars, whVars, ev, pg, req, perm, val, gsc, del>>

DebounceSettles == \E i \in Calls, o \in FuncOutcomes : DebounceSettle(i, o)

NextDebounce ==
    \/ DebounceCall
    \/ DebounceFire
    \/ DebounceSettles

SpecDebounce == InitDebounce /\ [][NextDebounce]_vars

\* timers fire and func settles; nothing obliges a caller to call again
SpecDebounceFair ==
    SpecDebounce /\ WF_vars(DebounceFire) /\ WF_vars(DebounceSettles)

\* the invocation of func that belongs to the burst of call i
InvocationOf(i) == {j \in deb.invoked : deb.burst[j] = deb.burst[i]}

\* func is invoked at most once per burst, with the arguments of the last
\* call of the burst
OncePerBurst ==
    deb.pc = "run" =>
        \A j \in deb.invoked :
            /\ InvocationOf(j) = {j}
            /\ \A i \in Calls : deb.burst[i] = deb.burst[j] => i <= j

\* the promise of call i has settled with the outcome of the invocation of
\* its burst
SettledWithBurst(i) ==
    /\ deb.promise[i] \in FuncOutcomes
    /\ \E j \in InvocationOf(i) : deb.promise[j] = deb.promise[i]

\* C29: in a burst of calls func is invoked exactly once, with the arguments
\* of the last call, and every promise returned to a caller of the burst
\* eventually settles with the outcome of that invocation.
C29_DebounceBurstSettles ==
    /\ []OncePerBurst
    /\ \A i \in Calls :
           (deb.pc = "run" /\ deb.promise[i] = "pending") ~> SettledWithBurst(i)

(***************************************************************************)
(* Concurrent manual requests: end-cooldown and unmute requests of the     *)
(* lead of c1, all for the log the cooldown trigger wrote for user 7,      *)
(* interleaved at the awaits between the Cooldown update and the insert.   *)
(***************************************************************************)
\* Requests in flight at the same time.
MaxRequests == 2

Requests == 1..MaxRequests
RequestUser == "u1"
RequestChannel == "c1"
RequestLogId == 1
RequestPair == <<"7", "c1">>

InitConcurrent ==
    /\ InitDb
    /\ WhIdle
    /\ EvIdle
    /\ PgIdle
    /\ PermIdle /\ ValIdle /\ GscIdle /\ DebIdle /\ DelIdle
    /\ req = [pc |-> "run",
              procs |-> [r \in Requests |->
                            [pc |-> "start", intent |-> "none", before |-> "n/a"]]]

\* the cooldown the requests are about
ConcurrentTrigger ==
    /\ req.pc = "run"
    /\ moderationLog = <<>>
    /\ Trigger("cooldown", RequestPair[1], RequestPair[2], NoHash)

\* up to `await db.cooldown.update(...)`: authorization, the form, the log
\* lookup and the update itself
RequestUpdate(r, intent, outcome) ==
    /\ req.pc = "run"
    /\ req.procs[r].pc = "start"
    /\ requireUserCanModerateChannel(RequestUser, RequestChannel)
    /\ IF FindLog(RequestLogId) = {}
       THEN /\ req' = [req EXCEPT !.procs[r].pc = "notFound", !.procs[r].intent = intent]
            /\ cooldown' = cooldown
       ELSE LET log == CHOOSE l \in FindLog(RequestLogId) : TRUE
                affected == log.affectedUserFid
            IN  IF ~CooldownUpdateReturned(CooldownRowExists(affected, RequestChannel),
                                           outcome)
                THEN /\ req' = [req EXCEPT !.procs[r].pc = "failed",
                                           !.procs[r].intent = intent]
                     /\ cooldown' = cooldown
                ELSE /\ req' = [req EXCEPT
                                   !.procs[r].pc = "updated",
                                   !.procs[r].intent = intent,
                                   !.procs[r].before = cooldown[<<affected, RequestChannel>>]]
                     /\ cooldown' = CooldownDeactivated(affected, RequestChannel)
    /\ UNCHANGED <<chanVars, moderationLog, nextLogId, unhideOk, last>>
    /\ UNCHANGED <<whVars, ev, pg, perm, val, gsc, deb, del>>

\* if (updated) await db.moderationLog.create(...); the response
RequestCreate(r) ==
    /\ req.pc = "run"
    /\ req.procs[r].pc = "updated"
    /\ LET entry == IF req.procs[r].intent = "end-cooldown" THEN "cooldownEnded"
                    ELSE "unmuted"
       IN  /\ moderationLog' =
                  IF Updated(req.procs[r].before)
                  THEN Append(moderationLog,
                              NewLog(entry, RequestPair[1], RequestUser, RequestChannel, NoHash))
                  ELSE moderationLog
           /\ nextLogId' = IF Updated(req.procs[r].before) THEN nextLogId + 1 ELSE nextLogId
    /\ req' = [req EXCEPT !.procs[r].pc = "done"]
    /\ UNCHANGED <<chanVars, cooldown, unhideOk, last>>
    /\ UNCHANGED <<whVars, ev, pg, perm, val, gsc, deb, del>>

NextConcurrent ==
    \/ ConcurrentTrigger
    \/ \E r \in Requests, i \in {"end-cooldown", "unmute"}, o \in UpdateOutcomes :
           RequestUpdate(r, i, o)
    \/ \E r \in Requests : RequestCreate(r)

SpecConcurrent == InitConcurrent /\ [][NextConcurrent]_vars

\* the entries that record the end of a cooldown or mute of the pair
EndingLogs ==
    {i \in 1..Len(moderationLog) :
        /\ moderationLog[i].action \in {"cooldownEnded", "unmuted"}
        /\ moderationLog[i].affectedUserFid = RequestPair[1]
        /\ moderationLog[i].channelId = RequestPair[2]}

\* C21: for any interleaving of concurrent end-cooldown / unmute requests on
\* the pair no update is lost: once a request got through, the Cooldown
\* record of the pair is inactive, and the requests together have appended
\* at most one ending entry for the one active cooldown they ended.
C21_ConcurrentEndingsLogOnce ==
    req.pc = "run" =>
        /\ (\E r \in Requests : req.procs[r].pc \in {"updated", "done"})
               => cooldown[RequestPair] = "inactive"
        /\ Cardinality(EndingLogs) <= 1

(***************************************************************************)
(* deleteChannel step by step: the four awaited writes of the settings     *)
(* action, each of which may fail, interleaved with insertions of          *)
(* ModerationLog and CastLog rows by other requests.                       *)
(***************************************************************************)
\* a write of the settings action reaches the database, or fails on the way
DeleteOutcomes == {"ok", "throws"}
\* hash of a cast that is logged while the request runs
NewCastHashes == {"0xh3"}

InitDelete ==
    /\ InitDb
    /\ WhIdle
    /\ EvIdle
    /\ PgIdle
    /\ ReqIdle /\ PermIdle /\ ValIdle /\ GscIdle /\ DebIdle
    /\ del = [pc |-> "start", userId |-> "none", channelId |-> "none"]

DelUnchanged == UNCHANGED <<whVars, ev, pg, req, perm, val, gsc, deb>>

\* requireUserCanModerateChannel, the form, db.comods.deleteMany
DeleteComods(userId, channelId, outcome) ==
    /\ del.pc = "start"
    /\ del' = [pc |-> IF ~requireUserCanModerateChannel(userId, channelId)
                      THEN "rejected"
                      ELSE IF outcome = "throws" THEN "failed" ELSE "comods",
               userId |-> userId, channelId |-> channelId]
    /\ comods' = IF requireUserCanModerateChannel(userId, channelId) /\ outcome = "ok"
                 THEN {m \in comods : m.channelId # channelId}
                 ELSE comods
    /\ UNCHANGED <<moderatedChannel, castLog, cooldown, moderationLog, nextLogId,
                   unhideOk, last>>
    /\ DelUnchanged

\* db.moderationLog.deleteMany
DeleteModerationLogs(outcome) ==
    /\ del.pc = "comods"
    /\ del' = [del EXCEPT !.pc = IF outcome = "throws" THEN "failed" ELSE "logs"]
    /\ moderationLog' = IF outcome = "ok" THEN LogsWithout(del.channelId)
                        ELSE moderationLog
    /\ UNCHANGED <<chanVars, cooldown, nextLogId, unhideOk, last>>
    /\ DelUnchanged

\* db.castLog.deleteMany
DeleteCastLogs(outcome) ==
    /\ del.pc = "logs"
    /\ del' = [del EXCEPT !.pc = IF outcome = "throws" THEN "failed" ELSE "casts"]
    /\ castLog' = IF outcome = "ok"
                  THEN {l \in castLog : l.channelId # del.channelId}
                  ELSE castLog
    /\ UNCHANGED <<moderatedChannel, comods, cooldown, moderationLog, nextLogId,
                   unhideOk, last>>
    /\ DelUnchanged

\* Mutation: CastLog without ON DELETE CASCADE (and without the constraint).
CastLogCascade_none(channelId) == castLog

\* CastLog_channelId_fkey ... ON DELETE CASCADE
CastLogCascade(channelId) == {l \in castLog : l.channelId # channelId}

\* ModerationLog is foreign-keyed to the channel with cascade delete
ModerationLogCascade(channelId) == LogsWithout(channelId)

\* db.moderatedChannel.delete, with what the database does to the rows
\* that still refer to the channel; then the success response
DeleteChannelRow(outcome) ==
    /\ del.pc = "casts"
    /\ del' = [del EXCEPT !.pc = IF outcome = "throws" THEN "failed" ELSE "done"]
    /\ IF outcome = "ok" /\ del.channelId \in DOMAIN moderatedChannel
       THEN /\ moderatedChannel' =
                   [c \in DOMAIN moderatedChannel \ {del.channelId} |-> moderatedChannel[c]]
            /\ castLog' = CastLogCascade(del.channelId)
            /\ moderationLog' = ModerationLogCascade(del.channelId)
       ELSE UNCHANGED <<moderatedChannel, castLog, moderationLog>>
    /\ UNCHANGED <<comods, cooldown, nextLogId, unhideOk, last>>
    /\ DelUnchanged

\* another request appends a ModerationLog row; the foreign key refuses a
\* row of a channel that is gone
InsertModerationLog(channelId) ==
    /\ del.pc # "off"
    /\ Trigger("mute", "7", channelId, NoHash)

\* another request logs a cast; CastLog_channelId_fkey refuses a row of a
\* channel that is gone
InsertCastLog(hash, channelId) ==
    /\ del.pc # "off"
    /\ channelId \in DOMAIN moderatedChannel
    /\ \A l \in castLog : l.hash # hash
    /\ castLog' = castLog \cup {[hash |-> hash, channelId |-> channelId]}
    /\ UNCHANGED <<moderatedChannel, comods, cooldown, moderationLog, nextLogId,
                   unhideOk, last>>
    /\ UNCHANGED notDb

NextDelete ==
    \/ \E u \in Users, c \in SettingsChannels, o \in DeleteOutcomes : DeleteComods(u, c, o)
    \/ \E o \in DeleteOutcomes : DeleteModerationLogs(o)
    \/ \E o \in DeleteOutcomes : DeleteCastLogs(o)
    \/ \E o \in DeleteOutcomes : DeleteChannelRow(o)
    \/ \E c \in ChannelIds : InsertModerationLog(c)
    \/ \E h \in NewCastHashes, c \in ChannelIds : InsertCastLog(h, c)

SpecDelete == InitDelete /\ [][NextDelete]_vars

\* the rows of the three dependent tables that refer to the channel
ComodsOf(channelId) == {m \in comods : m.channelId = channelId}
ModerationLogsOf(channelId) ==
    {i \in 1..Len(moderationLog) : moderationLog[i].channelId = channelId}
CastLogsOf(channelId) == {l \in castLog : l.channelId = channelId}

NoDanglingRows ==
    \A c \in ChannelIds \ DOMAIN moderatedChannel :
        ComodsOf(c) = {} /\ ModerationLogsOf(c) = {} /\ CastLogsOf(c) = {}

\* C30: during and after a deleteChannel request, interrupted by a failing
\* step or interleaved with insertions of log rows, no comod, ModerationLog
\* or CastLog row refers to a channel that no longer exists; the channel row
\* goes last, after the comods; and after a successful request none of the
\* channel's rows remain.
C30_DeletionLeavesNoDanglingRows ==
    del.pc # "off" =>
        /\ NoDanglingRows
        /\ (\E c \in ChannelIds : c \notin DOMAIN moderatedChannel) => del.pc = "done"
        /\ del.pc \in {"comods", "logs", "casts", "done"} => ComodsOf(del.channelId) = {}
        /\ del.pc = "done" =>
               /\ del.channelId \notin DOMAIN moderatedChannel
               /\ ModerationLogsOf(del.channelId) = {}
               /\ CastLogsOf(del.channelId) = {}

\* both deleteMany calls are through, the channel row is still there, and
\* rows of the channel were inserted behind them
C30_Witness ==
    /\ del.pc = "casts"
    /\ ModerationLogsOf(del.channelId) # {}
    /\ CastLogsOf(del.channelId) # {}

====
